---- MODULE Spec2Model ----
(***************************************************************************)
(* Keyboard tracking server (python/my_app.py): the process-wide tracking  *)
(* session (is_tracking, keyboard_events, the tracker's listener / event   *)
(* tap), the websocket handler with its command protocol, the HTTP facade  *)
(* and the thread-per-event broadcast over ws_connected_clients.           *)
(*                                                                         *)
(* Threads of the program and how they appear here:                        *)
(*   - the asyncio loop thread running one websocket_handler per client    *)
(*     (conn[c] is the handler's position, inbox[c] what it has sent);     *)
(*   - the HTTP server thread calling start/stop_keyboard_tracking         *)
(*     (thread Http);                                                      *)
(*   - the capture threads (pynput listener, Quartz run loop) running the  *)
(*     per-event callback (KeyEvent);                                      *)
(*   - one thread per captured event running broadcast_event (bcast[e]).   *)
(* A start()/stop() call is a frame that advances one statement at a time, *)
(* because nothing in the source makes the call atomic.                    *)
(***************************************************************************)
EXTENDS Integers, Sequences, FiniteSets, TLC

\* ---------------------------------------------------------------- bounds
NClients == 2
MaxEvents == 2
MaxCmds == 1
MaxOrphans == 1
\* Key events captured in the schedule that fans out to all observers.
FanoutEvents == 1

\* The HTTP server thread; websocket clients are 1..NClients.
Http == 0

Clients == 1..NClients
Threads == {Http} \cup Clients

VARIABLES
    FORCE_KEYBOARD_MODE,   \* os.environ FORCE_KEYBOARD_MODE, lower-cased
    IS_MACOS,              \* sys.platform == 'darwin'
    importable,            \* the modules __import__ succeeds on
    keyboard_tracker,      \* class of the object KeyboardTracking.create() returned
    KEYBOARD_AVAILABLE,    \* keyboard_tracker.available
    is_tracking,
    keyboard_events,       \* sequence of event ids, in append order
    listener,              \* PynputKeyboardTracking.listener and the state of that object
    event_tap,             \* MacOSKeyboardTracking.event_tap and the state of that tap
    orphans,               \* capture loops still delivering events that the tracker no longer references
    clock,                 \* number of events captured so far (the id of the last one)
    ws_connected_clients,
    conn,                  \* conn[c]: position of client c's websocket_handler
    alive,                 \* alive[c]: c's connection is open (a send on it succeeds)
    inbox,                 \* inbox[c]: the messages sent to c, in order
    frame,                 \* frame[t]: the start()/stop() call thread t is executing
    thread,                \* MacOSKeyboardTracking.thread and whether run_loop_thread still runs
    reading,               \* reading[c]: what c's handler holds while it builds a get_events reply
    bcast                  \* bcast[e]: the thread broadcasting event e

envVars == <<FORCE_KEYBOARD_MODE, IS_MACOS, importable, keyboard_tracker, KEYBOARD_AVAILABLE>>
sessionVars == <<is_tracking, keyboard_events, listener, event_tap, orphans, thread>>
clientVars == <<ws_connected_clients, conn, alive, inbox, reading>>
vars == <<envVars, sessionVars, clock, clientVars, frame, bcast>>

\* ------------------------------------------------- backend selection
ForceModes == {"", "pynput", "quartz", "other"}
Modules == {"pynput", "Quartz", "AppKit"}

is_module_available(mods, module_name) == module_name \in mods

\* KeyboardTracking.create(): the class of the tracker it returns.
create(force, macos, mods) ==
    IF force = "pynput"
    THEN IF is_module_available(mods, "pynput") THEN "Pynput" ELSE "Dummy"
    ELSE IF force = "quartz"
    THEN IF macos /\ is_module_available(mods, "Quartz") THEN "MacOS" ELSE "Dummy"
    ELSE IF is_module_available(mods, "pynput") THEN "Pynput"
    ELSE IF macos /\ is_module_available(mods, "Quartz") THEN "MacOS"
    ELSE "Dummy"

\* The .available attribute the tracker's __init__ sets.
available(tracker, mods) ==
    CASE tracker = "Dummy" -> FALSE
      [] tracker = "Pynput" -> "pynput" \in mods
      [] tracker = "MacOS" -> {"Quartz", "AppKit"} \subseteq mods

\* ------------------------------------------------------------ frames
IdleFrame ==
    [op |-> "none", pc |-> "idle", pre |-> FALSE, log |-> <<>>, fault |-> FALSE, ret |-> "none"]

\* Entering start()/stop(): pre remembers is_tracking at entry, and log the
\* value of keyboard_events at entry to start().
BeginCall(o) ==
    [op |-> o, pc |-> "check", pre |-> is_tracking,
     log |-> IF o = "start" THEN keyboard_events ELSE <<>>,
     fault |-> FALSE, ret |-> "none"]

Goto(t, label) == frame' = [frame EXCEPT ![t].pc = label]
Return(t, r) == frame' = [frame EXCEPT ![t].pc = "ret", ![t].ret = r]
\* The call ends because a backend call raised or returned nothing.
Fail(t, r) == frame' = [frame EXCEPT ![t].pc = "ret", ![t].ret = r, ![t].fault = TRUE]

At(t, o, label, tracker) ==
    /\ keyboard_tracker = tracker
    /\ frame[t].op = o
    /\ frame[t].pc = label

\* 1 when dropping the reference to a handle in state h leaves its loop running.
Orphaned(h) == IF h \in {"running", "live"} THEN 1 ELSE 0

\* The capture loops that deliver key events right now.
ActiveListeners ==
    orphans + (IF keyboard_tracker = "Pynput" THEN Orphaned(listener)
               ELSE IF keyboard_tracker = "MacOS" THEN Orphaned(event_tap) ELSE 0)

\* What a handler holds between the statements of a get_events reply. ref: the
\* list object it loaded from keyboard_events ("live": still the value of the
\* global; "stale": the global was rebound since, and events is the content
\* of the object held); tracking: the value it loaded from is_tracking; seen:
\* the values (keyboard_events, is_tracking) have had since the reply began.
NotReading == [ref |-> "none", events |-> <<>>, tracking |-> FALSE, seen |-> {}]

\* The globals become (events, tracking); rebind: keyboard_events is assigned a
\* new list, so the handlers that loaded the old one keep it as it is now.
Observe(events, tracking, rebind) ==
    reading' = [c \in Clients |->
        IF reading[c].ref = "none" THEN reading[c]
        ELSE [reading[c] EXCEPT
                !.seen = @ \cup {<<events, tracking>>},
                !.ref = IF rebind /\ @ = "live" THEN "stale" ELSE @,
                !.events = IF rebind /\ reading[c].ref = "live" THEN keyboard_events ELSE @]]

StartRefusedUnlessTracking(avail, tracking) == ~avail

\* `if not self.available or is_tracking: return False`
StartRefused(avail, tracking) == ~avail \/ tracking

\* `if not is_tracking: return False`
StopRefused(tracking) == ~tracking

\* --------------------------------------------- DummyKeyboardTracking
\* start(): `return False`; the handler and the facade never call it, since
\* KEYBOARD_AVAILABLE is false whenever the factory returned this tracker.
DummyStart == "false"

\* ------------------------------------------- PynputKeyboardTracking
PynputStartCheck(t) ==
    /\ At(t, "start", "check", "Pynput")
    /\ IF StartRefused(KEYBOARD_AVAILABLE, is_tracking)
       THEN Return(t, "false") ELSE Goto(t, "clear")
    /\ UNCHANGED <<envVars, sessionVars, clock, clientVars, bcast>>

PynputStartClear(t) ==
    /\ At(t, "start", "clear", "Pynput")
    /\ keyboard_events' = <<>>
    /\ Observe(<<>>, is_tracking, TRUE)
    /\ Goto(t, "create")
    /\ UNCHANGED <<envVars, is_tracking, listener, event_tap, orphans, thread, clock>>
    /\ UNCHANGED <<ws_connected_clients, conn, alive, inbox, bcast>>

\* self.listener = self.keyboard.Listener(...): the constructor returns or raises.
PynputStartCreate(t) ==
    /\ At(t, "start", "create", "Pynput")
    /\ \E outcome \in {"ok", "raise"} :
         IF outcome = "ok"
         THEN /\ orphans + Orphaned(listener) <= MaxOrphans
              /\ orphans' = orphans + Orphaned(listener)
              /\ listener' = "created"
              /\ Goto(t, "run")
         ELSE /\ Fail(t, "false")
              /\ UNCHANGED <<listener, orphans>>
    /\ UNCHANGED <<envVars, is_tracking, keyboard_events, event_tap, clock, clientVars, bcast, thread>>

\* self.listener.start(): a thread starts once; on None it is an AttributeError.
PynputStartRun(t) ==
    /\ At(t, "start", "run", "Pynput")
    /\ \E outcome \in {"ok", "raise"} :
         IF outcome = "ok" /\ listener = "created"
         THEN /\ listener' = "running"
              /\ Goto(t, "set")
         ELSE /\ Fail(t, "false")
              /\ UNCHANGED listener
    /\ UNCHANGED <<envVars, is_tracking, keyboard_events, event_tap, orphans, clock, clientVars, bcast, thread>>

PynputStartSet(t) ==
    /\ At(t, "start", "set", "Pynput")
    /\ is_tracking' = TRUE
    /\ Observe(keyboard_events, TRUE, FALSE)
    /\ Return(t, "true")
    /\ UNCHANGED <<envVars, keyboard_events, listener, event_tap, orphans, thread, clock>>
    /\ UNCHANGED <<ws_connected_clients, conn, alive, inbox, bcast>>

PynputStopCheck(t) ==
    /\ At(t, "stop", "check", "Pynput")
    /\ IF StopRefused(is_tracking) THEN Return(t, "false") ELSE Goto(t, "has")
    /\ UNCHANGED <<envVars, sessionVars, clock, clientVars, bcast>>

\* `if self.listener:` ... else `return False`
PynputStopHas(t) ==
    /\ At(t, "stop", "has", "Pynput")
    /\ IF listener # "None" THEN Goto(t, "call") ELSE Return(t, "false")
    /\ UNCHANGED <<envVars, sessionVars, clock, clientVars, bcast>>

\* self.listener.stop(): outside any try, so what it raises leaves stop().
PynputStopCall(t) ==
    /\ At(t, "stop", "call", "Pynput")
    /\ \E outcome \in {"ok", "raise"} :
         IF outcome = "ok" /\ listener # "None"
         THEN /\ listener' = "stopped"
              /\ Goto(t, "null")
         ELSE /\ Fail(t, "raised")
              /\ UNCHANGED listener
    /\ UNCHANGED <<envVars, is_tracking, keyboard_events, event_tap, orphans, clock, clientVars, bcast, thread>>

PynputStopNull(t) ==
    /\ At(t, "stop", "null", "Pynput")
    /\ orphans + Orphaned(listener) <= MaxOrphans
    /\ orphans' = orphans + Orphaned(listener)
    /\ listener' = "None"
    /\ Goto(t, "set")
    /\ UNCHANGED <<envVars, is_tracking, keyboard_events, event_tap, clock, clientVars, bcast, thread>>

PynputStopSet(t) ==
    /\ At(t, "stop", "set", "Pynput")
    /\ is_tracking' = FALSE
    /\ Observe(keyboard_events, FALSE, FALSE)
    /\ Return(t, "true")
    /\ UNCHANGED <<envVars, keyboard_events, listener, event_tap, orphans, thread, clock>>
    /\ UNCHANGED <<ws_connected_clients, conn, alive, inbox, bcast>>

\* -------------------------------------------- MacOSKeyboardTracking
\* event_tap is "None", or the tap it refers to: "created", "enabled" (no run
\* loop serves it yet), "live" (enabled and served by the run-loop thread) or
\* "disabled".
MacOSStartCheck(t) ==
    /\ At(t, "start", "check", "MacOS")
    /\ IF StartRefused(KEYBOARD_AVAILABLE, is_tracking)
       THEN Return(t, "false") ELSE Goto(t, "clear")
    /\ UNCHANGED <<envVars, sessionVars, clock, clientVars, bcast>>

MacOSStartClear(t) ==
    /\ At(t, "start", "clear", "MacOS")
    /\ keyboard_events' = <<>>
    /\ Observe(<<>>, is_tracking, TRUE)
    /\ Goto(t, "tap")
    /\ UNCHANGED <<envVars, is_tracking, listener, event_tap, orphans, thread, clock>>
    /\ UNCHANGED <<ws_connected_clients, conn, alive, inbox, bcast>>

\* self.event_tap = CGEventTapCreate(...): a tap, None (no permission), or raises.
MacOSStartTap(t) ==
    /\ At(t, "start", "tap", "MacOS")
    /\ \E outcome \in {"ok", "null", "raise"} :
         IF outcome = "raise"
         THEN /\ Fail(t, "false")
              /\ UNCHANGED <<event_tap, orphans>>
         ELSE /\ orphans + Orphaned(event_tap) <= MaxOrphans
              /\ orphans' = orphans + Orphaned(event_tap)
              /\ IF outcome = "ok"
                 THEN event_tap' = "created" /\ Goto(t, "setup")
                 ELSE event_tap' = "None" /\ Fail(t, "false")
    /\ UNCHANGED <<envVars, is_tracking, keyboard_events, listener, clock, clientVars, bcast, thread>>

\* CFMachPortCreateRunLoopSource(None, self.event_tap, 0); CGEventTapEnable(self.event_tap, True)
MacOSStartSetup(t) ==
    /\ At(t, "start", "setup", "MacOS")
    /\ \E outcome \in {"ok", "raise"} :
         IF outcome = "ok" /\ event_tap # "None"
         THEN /\ event_tap' = (IF event_tap = "created" THEN "enabled"
                               ELSE IF event_tap = "disabled" THEN "live"
                               ELSE event_tap)
              /\ Goto(t, "thread")
         ELSE /\ Fail(t, "false")
              /\ UNCHANGED event_tap
    /\ UNCHANGED <<envVars, is_tracking, keyboard_events, listener, orphans, clock, clientVars, bcast, thread>>

\* self.thread.start(): run_loop_thread adds the source to its run loop and runs
\* it in CFRunLoopRun(), which returns only when that run loop is stopped.
MacOSStartThread(t) ==
    /\ At(t, "start", "thread", "MacOS")
    /\ \E outcome \in {"ok", "raise"} :
         IF outcome = "ok"
         THEN /\ event_tap' = (IF event_tap = "enabled" THEN "live" ELSE event_tap)
              /\ thread' = "running"
              /\ Goto(t, "set")
         ELSE /\ Fail(t, "false")
              /\ UNCHANGED <<event_tap, thread>>
    /\ UNCHANGED <<envVars, is_tracking, keyboard_events, listener, orphans, clock, clientVars, bcast>>

MacOSStartSet(t) ==
    /\ At(t, "start", "set", "MacOS")
    /\ is_tracking' = TRUE
    /\ Observe(keyboard_events, TRUE, FALSE)
    /\ Return(t, "true")
    /\ UNCHANGED <<envVars, keyboard_events, listener, event_tap, orphans, thread, clock>>
    /\ UNCHANGED <<ws_connected_clients, conn, alive, inbox, bcast>>

\* `if not is_tracking or not self.event_tap: return False`
MacOSStopCheck(t) ==
    /\ At(t, "stop", "check", "MacOS")
    /\ IF StopRefused(is_tracking) \/ event_tap = "None"
       THEN Return(t, "false") ELSE Goto(t, "disable")
    /\ UNCHANGED <<envVars, sessionVars, clock, clientVars, bcast>>

\* CGEventTapEnable(self.event_tap, False); what it raises is caught: return False.
MacOSStopDisable(t) ==
    /\ At(t, "stop", "disable", "MacOS")
    /\ \E outcome \in {"ok", "raise"} :
         IF outcome = "ok" /\ event_tap # "None"
         THEN /\ event_tap' = (IF event_tap \in {"enabled", "live"} THEN "disabled" ELSE event_tap)
              /\ Goto(t, "null")
         ELSE /\ Fail(t, "false")
              /\ UNCHANGED event_tap
    /\ UNCHANGED <<envVars, is_tracking, keyboard_events, listener, orphans, clock, clientVars, bcast, thread>>

\* CFRunLoopStop(CFRunLoopGetCurrent()) acts on the calling thread's run loop;
\* then self.event_tap = None, self.run_loop_source = None.
MacOSStopNull(t) ==
    /\ At(t, "stop", "null", "MacOS")
    /\ orphans + Orphaned(event_tap) <= MaxOrphans
    /\ orphans' = orphans + Orphaned(event_tap)
    /\ event_tap' = "None"
    /\ Goto(t, "set")
    /\ UNCHANGED <<envVars, is_tracking, keyboard_events, listener, clock, clientVars, bcast, thread>>

MacOSStopSet(t) ==
    /\ At(t, "stop", "set", "MacOS")
    /\ is_tracking' = FALSE
    /\ Observe(keyboard_events, FALSE, FALSE)
    /\ Return(t, "true")
    /\ UNCHANGED <<envVars, keyboard_events, listener, event_tap, orphans, thread, clock>>
    /\ UNCHANGED <<ws_connected_clients, conn, alive, inbox, bcast>>

\* One statement of the start() call thread t is in.
StartStep(t) ==
    \/ PynputStartCheck(t) \/ PynputStartClear(t) \/ PynputStartCreate(t)
    \/ PynputStartRun(t) \/ PynputStartSet(t)
    \/ MacOSStartCheck(t) \/ MacOSStartClear(t) \/ MacOSStartTap(t)
    \/ MacOSStartSetup(t) \/ MacOSStartThread(t) \/ MacOSStartSet(t)

\* One statement of the stop() call thread t is in.
StopStep(t) ==
    \/ PynputStopCheck(t) \/ PynputStopHas(t) \/ PynputStopCall(t)
    \/ PynputStopNull(t) \/ PynputStopSet(t)
    \/ MacOSStopCheck(t) \/ MacOSStopDisable(t) \/ MacOSStopNull(t) \/ MacOSStopSet(t)

CallStep(t) == StartStep(t) \/ StopStep(t)

InCall(t) == frame[t].op # "none" /\ frame[t].pc # "ret"

\* ------------------------------------------------------ HTTP facade
\* POST /api/keyboard/start and /stop: `if not KEYBOARD_AVAILABLE` answers at
\* once; otherwise the request thread calls start/stop_keyboard_tracking().
HttpRequest(o) ==
    /\ frame[Http].op = "none"
    /\ KEYBOARD_AVAILABLE
    /\ frame' = [frame EXCEPT ![Http] = BeginCall(o)]
    /\ UNCHANGED <<envVars, sessionVars, clock, clientVars, bcast>>

\* The JSON answer leaves the process; an exception becomes an error page.
HttpRespond ==
    /\ frame[Http].pc = "ret"
    /\ frame' = [frame EXCEPT ![Http] = IdleFrame]
    /\ UNCHANGED <<envVars, sessionVars, clock, clientVars, bcast>>

\* ------------------------------------------------ messages to a client
StatusMsg(tracking, avail) ==
    [type |-> "status", isTracking |-> tracking, keyboardAvailable |-> avail]

InitEventsMsg(events) == [type |-> "init_events", events |-> events]

\* json.dumps(event): the event dict itself, named here by its id.
EventMsg(e) == [type |-> "key", event |-> e]

EventsMsgWithoutLog(events, tracking) == [type |-> "events", events |-> <<>>, isTracking |-> tracking]

\* The reply to get_events.
EventsMsg(events, tracking) == [type |-> "events", events |-> events, isTracking |-> tracking]

CommandResponse(command, success, message) ==
    [type |-> "command_response", command |-> command, success |-> success, message |-> message]

NotAvailableMessage == "Keyboard tracking not available on this platform"

\* "message": ... if success else ...
ResponseMessage(command, success) ==
    IF command = "start_tracking"
    THEN (IF success THEN "Keyboard tracking started" ELSE "Keyboard tracking already running")
    ELSE (IF success THEN "Keyboard tracking stopped" ELSE "Keyboard tracking not running")

CommandOfOther(o) == IF o = "start" THEN "stop_tracking" ELSE "start_tracking"

\* The "command" the reply to a start / stop call names.
CommandOf(o) == IF o = "start" THEN "start_tracking" ELSE "stop_tracking"
OpOf(command) == IF command = "start_tracking" THEN "start" ELSE "stop"

Commands == {"start_tracking", "stop_tracking", "get_events"}

IsReply(m) == m.type \in {"command_response", "events"}
Replies(c) == {i \in 1..Len(inbox[c]) : IsReply(inbox[c][i])}

\* -------------------------------------------------- websocket_handler
\* conn[c].at: "new" (not connected), "status", "init", "loop" (awaiting a
\* message), "handle" (a message was received: conn[c].request), "events" and
\* "dumps" (building the get_events reply), "call" (inside
\* start/stop_keyboard_tracking), "finally", "closed" (handler returned),
\* "crashed" (handler left through the KeyError of the remove in finally).
Handler(at, request) == [at |-> at, request |-> request]

Connect(c) ==
    /\ conn[c].at = "new"
    /\ ws_connected_clients' = ws_connected_clients \cup {c}
    /\ conn' = [conn EXCEPT ![c] = Handler("status", "none")]
    /\ UNCHANGED <<envVars, sessionVars, clock, alive, inbox, frame, bcast, reading>>

\* await websocket.send(status): on a closed connection it raises, to finally.
SendStatus(c) ==
    /\ conn[c].at = "status"
    /\ IF alive[c]
       THEN /\ inbox' = [inbox EXCEPT ![c] = Append(@, StatusMsg(is_tracking, KEYBOARD_AVAILABLE))]
            /\ conn' = [conn EXCEPT ![c] = Handler("init", "none")]
       ELSE /\ conn' = [conn EXCEPT ![c] = Handler("finally", "none")]
            /\ UNCHANGED inbox
    /\ UNCHANGED <<envVars, sessionVars, clock, ws_connected_clients, alive, frame, bcast, reading>>

ReplayDueWhenTracking(tracking, events) == tracking

\* `if is_tracking and keyboard_events:`
ReplayDue(tracking, events) == tracking /\ events # <<>>

\* The init_events replay, when it is due.
SendInit(c) ==
    /\ conn[c].at = "init"
    /\ IF ReplayDue(is_tracking, keyboard_events)
       THEN IF alive[c]
            THEN /\ inbox' = [inbox EXCEPT ![c] = Append(@, InitEventsMsg(keyboard_events))]
                 /\ conn' = [conn EXCEPT ![c] = Handler("loop", "none")]
            ELSE /\ conn' = [conn EXCEPT ![c] = Handler("finally", "none")]
                 /\ UNCHANGED inbox
       ELSE /\ conn' = [conn EXCEPT ![c] = Handler("loop", "none")]
            /\ UNCHANGED inbox
    /\ UNCHANGED <<envVars, sessionVars, clock, ws_connected_clients, alive, frame, bcast, reading>>

\* `async for message in websocket`: the next message of the client.
Receive(c, command) ==
    /\ conn[c].at = "loop"
    /\ alive[c]
    /\ Cardinality(Replies(c)) < MaxCmds
    /\ conn' = [conn EXCEPT ![c] = Handler("handle", command)]
    /\ UNCHANGED <<envVars, sessionVars, clock, ws_connected_clients, alive, inbox, frame, bcast, reading>>

TrackerAlwaysUsed(avail) == TRUE

\* `if KEYBOARD_AVAILABLE:` before start/stop_keyboard_tracking() is called.
TrackerUsed(avail) == avail

\* What a client can send: the commands, and the malformed payloads: text
\* that is not JSON, JSON that is no object (an array, a number, a string,
\* null), and an object whose command is missing or unknown.
Malformed == {"not_json", "non_object", "unknown"}
Payloads == Commands \cup Malformed

\* json.loads raises JSONDecodeError, caught inside the loop; data.get on a
\* value that is no dict raises AttributeError, caught outside the loop; any
\* other command falls to the print of the else branch.
AfterMalformed(payload) == IF payload = "non_object" THEN "finally" ELSE "loop"

\* start_tracking / stop_tracking: the call begins, or the not-available reply.
HandleCommand(c, command) ==
    /\ IF TrackerUsed(KEYBOARD_AVAILABLE)
       THEN /\ frame' = [frame EXCEPT ![c] = BeginCall(OpOf(command))]
            /\ conn' = [conn EXCEPT ![c] = Handler("call", command)]
            /\ UNCHANGED inbox
       ELSE /\ IF alive[c]
               THEN /\ inbox' = [inbox EXCEPT ![c] =
                           Append(@, CommandResponse(command, FALSE, NotAvailableMessage))]
                    /\ conn' = [conn EXCEPT ![c] = Handler("loop", "none")]
               ELSE /\ conn' = [conn EXCEPT ![c] = Handler("finally", "none")]
                    /\ UNCHANGED inbox
            /\ UNCHANGED frame
    /\ UNCHANGED reading

\* get_events: "events": keyboard_events, the first global the reply's dict loads.
HandleGetEvents(c) ==
    /\ reading' = [reading EXCEPT ![c] =
           [NotReading EXCEPT !.ref = "live", !.seen = {<<keyboard_events, is_tracking>>}]]
    /\ conn' = [conn EXCEPT ![c] = Handler("events", "get_events")]
    /\ UNCHANGED <<inbox, frame>>

HandleMalformed(c, payload) ==
    /\ conn' = [conn EXCEPT ![c] = Handler(AfterMalformed(payload), "none")]
    /\ UNCHANGED <<inbox, frame, reading>>

\* The message is dispatched on data.get('command').
Handle(c) ==
    /\ conn[c].at = "handle"
    /\ LET command == conn[c].request IN
       IF command \in {"start_tracking", "stop_tracking"} THEN HandleCommand(c, command)
       ELSE IF command = "get_events" THEN HandleGetEvents(c)
       ELSE HandleMalformed(c, command)
    /\ UNCHANGED <<envVars, sessionVars, clock, ws_connected_clients, alive, bcast>>

\* "isTracking": is_tracking, the second global the reply's dict loads.
LoadTracking(c) ==
    /\ conn[c].at = "events"
    /\ reading' = [reading EXCEPT ![c].tracking = is_tracking]
    /\ conn' = [conn EXCEPT ![c] = Handler("dumps", conn[c].request)]
    /\ UNCHANGED <<envVars, sessionVars, clock, ws_connected_clients, alive, inbox, frame, bcast>>

\* json.dumps(...) serialises the list object held, as it is now; then the send.
SendEvents(c) ==
    /\ conn[c].at = "dumps"
    /\ LET held == IF reading[c].ref = "live" THEN keyboard_events ELSE reading[c].events IN
       IF alive[c]
       THEN /\ inbox' = [inbox EXCEPT ![c] = Append(@, EventsMsg(held, reading[c].tracking))]
            /\ conn' = [conn EXCEPT ![c] = Handler("loop", "none")]
       ELSE /\ conn' = [conn EXCEPT ![c] = Handler("finally", "none")]
            /\ UNCHANGED inbox
    /\ reading' = [reading EXCEPT ![c] = NotReading]
    /\ UNCHANGED <<envVars, sessionVars, clock, ws_connected_clients, alive, frame, bcast>>

\* start/stop_keyboard_tracking() returned (or raised): send the command_response.
Reply(c) ==
    /\ conn[c].at = "call"
    /\ frame[c].pc = "ret"
    /\ LET success == frame[c].ret = "true"
           command == CommandOf(frame[c].op) IN
       IF frame[c].ret # "raised" /\ alive[c]
       THEN /\ inbox' = [inbox EXCEPT ![c] =
                   Append(@, CommandResponse(command, success, ResponseMessage(command, success)))]
            /\ conn' = [conn EXCEPT ![c] = Handler("loop", "none")]
       ELSE /\ conn' = [conn EXCEPT ![c] = Handler("finally", "none")]
            /\ UNCHANGED inbox
    /\ frame' = [frame EXCEPT ![c] = IdleFrame]
    /\ UNCHANGED <<envVars, sessionVars, clock, ws_connected_clients, alive, bcast, reading>>

\* The client closes, or the connection breaks.
Drop(c) ==
    /\ conn[c].at \in {"status", "init", "loop", "handle", "events", "dumps", "call"}
    /\ alive[c]
    /\ alive' = [alive EXCEPT ![c] = FALSE]
    /\ UNCHANGED <<envVars, sessionVars, clock, ws_connected_clients, conn, inbox, frame, bcast, reading>>

\* The `async for` ends on the closed connection.
LoopEnd(c) ==
    /\ conn[c].at = "loop"
    /\ ~alive[c]
    /\ conn' = [conn EXCEPT ![c] = Handler("finally", "none")]
    /\ UNCHANGED <<envVars, sessionVars, clock, ws_connected_clients, alive, inbox, frame, bcast, reading>>

\* finally: ws_connected_clients.remove(websocket), a KeyError when it is not in the set.
Finally(c) ==
    /\ conn[c].at = "finally"
    /\ ws_connected_clients' = ws_connected_clients \ {c}
    /\ conn' = [conn EXCEPT ![c] =
            Handler(IF c \in ws_connected_clients THEN "closed" ELSE "crashed", "none")]
    /\ UNCHANGED <<envVars, sessionVars, clock, alive, inbox, frame, bcast, reading>>

\* ------------------------------------------- capture callback, fan-out
\* bcast[e]: pc "none" (no thread), "start", "iter", "remove", "done",
\* "crashed" (an exception left broadcast_event); size: the set's size when
\* the iteration began; seen: the clients iterated; failed:
\* disconnected_clients; removed: those already removed; targets: the
\* clients registered when the event was handed to run_async_in_thread;
\* pc "sending": inside an `await client.send` that does not complete;
\* stalled: the clients whose send did not complete at once.
NoBroadcast ==
    [pc |-> "none", size |-> 0, seen |-> {}, failed |-> {}, removed |-> {}, targets |-> {},
     stalled |-> {}]

\* run_async_in_thread: `if not ws_connected_clients: return`, else a new thread.
run_async_in_thread(clients) ==
    IF clients = {} THEN NoBroadcast ELSE [NoBroadcast EXCEPT !.pc = "start", !.targets = clients]

\* _on_key_press / _on_key_release / the Quartz callback, on a capture thread:
\* keyboard_events.append(event); run_async_in_thread(broadcast_event(event)).
Capture(limit) ==
    /\ ActiveListeners > 0
    /\ clock < limit
    /\ clock' = clock + 1
    /\ keyboard_events' = Append(keyboard_events, clock + 1)
    /\ Observe(Append(keyboard_events, clock + 1), is_tracking, FALSE)
    /\ bcast' = [bcast EXCEPT ![clock + 1] = run_async_in_thread(ws_connected_clients)]
    /\ UNCHANGED <<envVars, is_tracking, listener, event_tap, orphans, thread>>
    /\ UNCHANGED <<ws_connected_clients, conn, alive, inbox, frame>>

KeyEvent == Capture(MaxEvents)

\* The thread has ended: its locals are gone; failed and targets are kept as
\* the record of what this broadcast did.
Ended(b, how) == [b EXCEPT !.pc = how, !.size = 0, !.seen = {}, !.removed = {}]

\* broadcast_event: `if not ws_connected_clients: return`; the for loop's iterator.
BroadcastBegin(e) ==
    /\ bcast[e].pc = "start"
    /\ bcast' = [bcast EXCEPT ![e] =
            IF ws_connected_clients = {}
            THEN Ended(@, "done")
            ELSE [@ EXCEPT !.pc = "iter", !.size = Cardinality(ws_connected_clients)]]
    /\ UNCHANGED <<envVars, sessionVars, clock, clientVars, frame>>

\* The set iterator raises RuntimeError once the set's size has changed.
IterationBroken(size, clients) == Cardinality(clients) # size

\* One round of `for client in ws_connected_clients: await client.send(event_json)`.
BroadcastSend(e) ==
    /\ bcast[e].pc = "iter"
    /\ LET b == bcast[e]
           rest == ws_connected_clients \ b.seen IN
       IF IterationBroken(b.size, ws_connected_clients)
       THEN /\ bcast' = [bcast EXCEPT ![e] = Ended(@, "crashed")]
            /\ UNCHANGED inbox
       ELSE IF rest = {}
       THEN /\ bcast' = [bcast EXCEPT ![e].pc = "remove"]
            /\ UNCHANGED inbox
       ELSE \E c \in rest :
              IF alive[c]
              THEN /\ inbox' = [inbox EXCEPT ![c] = Append(@, EventMsg(e))]
                   /\ bcast' = [bcast EXCEPT ![e].seen = @ \cup {c}]
              ELSE /\ bcast' = [bcast EXCEPT ![e].seen = @ \cup {c}, ![e].failed = @ \cup {c}]
                   /\ UNCHANGED inbox
    /\ UNCHANGED <<envVars, sessionVars, clock, ws_connected_clients, conn, alive, frame, reading>>

\* `await client.send(event_json)` to a client that does not read: the send
\* waits for the connection's write buffer to drain.
BroadcastStall(e) ==
    /\ bcast[e].pc = "iter"
    /\ ~IterationBroken(bcast[e].size, ws_connected_clients)
    /\ \E c \in ws_connected_clients \ bcast[e].seen :
          /\ alive[c]
          /\ bcast' = [bcast EXCEPT ![e].pc = "sending", ![e].seen = @ \cup {c},
                                    ![e].stalled = @ \cup {c}]
    /\ UNCHANGED <<envVars, sessionVars, clock, clientVars, frame>>

\* The client the send in progress is waiting for.
Awaited(b) == b.stalled \ b.failed

\* The connection has been closed under the waiting send (the client went
\* away, or the keepalive of ping_interval=30, ping_timeout=10 closed it):
\* the send raises, `except Exception: disconnected_clients.add(client)`.
BroadcastTimeout(e) ==
    /\ bcast[e].pc = "sending"
    /\ \A c \in Awaited(bcast[e]) : ~alive[c]
    /\ bcast' = [bcast EXCEPT ![e].pc = "iter", ![e].failed = @ \cup Awaited(bcast[e])]
    /\ UNCHANGED <<envVars, sessionVars, clock, clientVars, frame>>

\* `for client in disconnected_clients: ws_connected_clients.remove(client)`
BroadcastRemove(e) ==
    /\ bcast[e].pc = "remove"
    /\ LET todo == bcast[e].failed \ bcast[e].removed IN
       IF todo = {}
       THEN /\ bcast' = [bcast EXCEPT ![e] = Ended(@, "done")]
            /\ UNCHANGED ws_connected_clients
       ELSE \E c \in todo :
              IF c \in ws_connected_clients
              THEN /\ ws_connected_clients' = ws_connected_clients \ {c}
                   /\ bcast' = [bcast EXCEPT ![e].removed = @ \cup {c}]
              ELSE /\ bcast' = [bcast EXCEPT ![e] = Ended(@, "crashed")]
                   /\ UNCHANGED ws_connected_clients
    /\ UNCHANGED <<envVars, sessionVars, clock, conn, alive, inbox, frame, reading>>

\* --------------------------------------------------------- initial state
\* The hosts the process can start on, and one host for each tracker the
\* factory can return (with and without .available): after startup the
\* program reads keyboard_tracker and KEYBOARD_AVAILABLE only.
Hosts == [force : ForceModes, macos : BOOLEAN, mods : SUBSET Modules]

SampleHosts ==
    {h \in Hosts : /\ h.force = ""
                   /\ h.mods \in {{}, {"pynput"}, {"Quartz"}, {"Quartz", "AppKit"}}
                   /\ h.macos = ("Quartz" \in h.mods)}

\* The hosts on which the Quartz and AppKit modules are found only on macOS.
RealHosts == {h \in Hosts : (h.mods \cap {"Quartz", "AppKit"} # {}) => h.macos}

\* The state once the module has been loaded on one of the hosts.
InitOn(hosts) ==
    /\ \E h \in hosts :
         /\ FORCE_KEYBOARD_MODE = h.force
         /\ IS_MACOS = h.macos
         /\ importable = h.mods
    /\ keyboard_tracker = create(FORCE_KEYBOARD_MODE, IS_MACOS, importable)
    /\ KEYBOARD_AVAILABLE = available(keyboard_tracker, importable)
    /\ is_tracking = FALSE
    /\ keyboard_events = <<>>
    /\ listener = "None"
    /\ event_tap = "None"
    /\ orphans = 0
    /\ thread = "None"
    /\ reading = [c \in Clients |-> NotReading]
    /\ clock = 0
    /\ ws_connected_clients = {}
    /\ conn = [c \in Clients |-> Handler("new", "none")]
    /\ alive = [c \in Clients |-> TRUE]
    /\ inbox = [c \in Clients |-> <<>>]
    /\ frame = [t \in Threads |-> IdleFrame]
    /\ bcast = [e \in 1..MaxEvents |-> NoBroadcast]

Init == InitOn(SampleHosts)

\* ------------------------------------------------------ schedules
\* The program is studied under these schedules of the same statements.
\*   SerialSpec: one observer and the HTTP facade, the threads taking turns: a
\*     handler runs from one wait to the next, a request and a broadcast run
\*     to their end, before another thread moves.
\*   RaceSpec: one observer and the HTTP facade, their start()/stop() calls
\*     interleaved statement by statement.
\*   FanoutSpec: all observers, the capture callback and the broadcast
\*     thread of one event interleaved freely; the facade starts tracking.
\*   OrderSpec: as FanoutSpec, with one observer and all events.
Solo == {1}
Events == 1..MaxEvents

BusyHandler(c) ==
    conn[c].at \in {"status", "init", "handle", "events", "dumps", "call", "finally"}
BusyBroadcast(e) == bcast[e].pc \in {"start", "iter", "remove"}
HttpIdle == frame[Http].op = "none"
Quiet ==
    /\ HttpIdle
    /\ \A c \in Clients : ~BusyHandler(c)
    /\ \A e \in Events : ~BusyBroadcast(e)

HandlerStep(c) ==
    \/ SendStatus(c) \/ SendInit(c) \/ Handle(c) \/ LoadTracking(c) \/ SendEvents(c)
    \/ CallStep(c) \/ Reply(c) \/ Finally(c)

BroadcastStep(e) == BroadcastBegin(e) \/ BroadcastSend(e) \/ BroadcastRemove(e)

HttpStep == CallStep(Http) \/ HttpRespond

SerialNext ==
    \/ \E c \in Solo : Quiet /\ Connect(c)
    \/ \E c \in Solo : Quiet /\ Drop(c)
    \/ \E c \in Solo : Quiet /\ LoopEnd(c)
    \/ \E c \in Solo, payload \in Payloads : Quiet /\ Receive(c, payload)
    \/ \E o \in {"start", "stop"} : Quiet /\ HttpRequest(o)
    \/ Quiet /\ KeyEvent
    \/ \E c \in Solo : HandlerStep(c)
    \/ HttpStep
    \/ \E e \in Events : BroadcastStep(e)

SerialSpec == Init /\ [][SerialNext]_vars

RaceNext ==
    \/ \E c \in Solo : Connect(c) \/ Drop(c) \/ LoopEnd(c)
    \/ \E c \in Solo, payload \in Payloads : Receive(c, payload)
    \/ \E o \in {"start", "stop"} : HttpRequest(o)
    \/ \E c \in Solo : HandlerStep(c)
    \/ HttpStep

RaceSpec == Init /\ [][RaceNext]_vars

\* LogSpec: as RaceSpec, with the capture callback running too. The broadcast
\* threads it spawns are left where they start: they touch neither the log
\* nor the session state.
LogNext == RaceNext \/ KeyEvent

LogSpec == Init /\ [][LogNext]_vars

\* StartupSpec: every host and every value of FORCE_KEYBOARD_MODE; after
\* startup the HTTP facade alone starts and stops tracking.
StartupNext ==
    \/ \E o \in {"start", "stop"} : HttpRequest(o)
    \/ HttpStep

StartupSpec == InitOn(RealHosts) /\ [][StartupNext]_vars

Fanout(observers, limit) ==
    \/ StartStep(Http) \/ HttpRespond
    \/ HttpIdle /\ HttpRequest("start")
    \/ \E c \in observers : HttpIdle /\ Connect(c)
    \/ \E c \in observers : HttpIdle /\ SendStatus(c)
    \/ \E c \in observers : HttpIdle /\ SendInit(c)
    \/ \E c \in observers : HttpIdle /\ Drop(c)
    \/ \E c \in observers : HttpIdle /\ LoopEnd(c)
    \/ \E c \in observers : HttpIdle /\ Finally(c)
    \/ HttpIdle /\ Capture(limit)
    \/ \E e \in Events : HttpIdle /\ BroadcastBegin(e)
    \/ \E e \in Events : HttpIdle /\ BroadcastSend(e)
    \/ \E e \in Events : HttpIdle /\ BroadcastRemove(e)

FanoutSpec == Init /\ [][Fanout(Clients, FanoutEvents)]_vars

OrderSpec == Init /\ [][Fanout(Solo, MaxEvents)]_vars

\* StallSpec: as FanoutSpec, with sends that wait for a client that does not read.
StallNext ==
    \/ Fanout(Clients, FanoutEvents)
    \/ \E e \in Events : HttpIdle /\ BroadcastStall(e)
    \/ \E e \in Events : HttpIdle /\ BroadcastTimeout(e)

StallSpec == Init /\ [][StallNext]_vars

\* RestartSpec: one observer that only listens, the HTTP facade starting and
\* stopping at any time, the capture callback and its broadcast threads.
RestartNext ==
    \/ \E o \in {"start", "stop"} : HttpRequest(o)
    \/ HttpStep
    \/ \E c \in Solo : Connect(c) \/ SendStatus(c) \/ SendInit(c)
    \/ KeyEvent
    \/ \E e \in Events : BroadcastStep(e)

RestartSpec == Init /\ [][RestartNext]_vars

\* ReplaySpec: tracking is started once, observers connect only while tracking
\* and only listen; keys are captured and broadcast meanwhile.
ReplayNext ==
    \/ StartStep(Http) \/ HttpRespond
    \/ HttpRequest("start")
    \/ \E c \in Clients : is_tracking /\ Connect(c)
    \/ \E c \in Clients : SendStatus(c) \/ SendInit(c)
    \/ Capture(FanoutEvents)
    \/ \E e \in Events : BroadcastStep(e)

ReplaySpec == Init /\ [][ReplayNext]_vars

\* ================================================================ claims
Last(q) == q[Len(q)]

\* No start()/stop() call is between its first and its last statement.
NoCallRunning == \A t \in Threads : ~InCall(t)

\* The tracker holds a backend handle: self.listener, or self.event_tap.
HandleHeld ==
    IF keyboard_tracker = "Pynput" THEN listener # "None"
    ELSE IF keyboard_tracker = "MacOS" THEN event_tap # "None"
    ELSE FALSE

\* C1: when a Start or Stop call has returned, the state is the one the state
\* machine gives for the state the call began in: Start in Idle (the backend's
\* start succeeding) ends Tracking, Stop in Tracking ends Idle, Start in
\* Tracking stays Tracking, Stop in Idle stays Idle.
C1_StateAlternates ==
    \A t \in Threads :
        frame[t].pc = "ret" =>
            /\ (frame[t].op = "start" /\ ~frame[t].pre /\ ~frame[t].fault) => is_tracking
            /\ (frame[t].op = "stop" /\ frame[t].pre) => ~is_tracking
            /\ (frame[t].op = "start" /\ frame[t].pre) => is_tracking
            /\ (frame[t].op = "stop" /\ ~frame[t].pre) => ~is_tracking

\* C2: between calls, the tracker holds a backend handle exactly when the
\* session is Tracking.
C2_HandleIffTracking == NoCallRunning => (HandleHeld <=> is_tracking)

\* C3: at most one capture loop delivers key events at any time.
C3_AtMostOneListener == ActiveListeners <= 1

\* broadcast_event(e) has returned, or an exception has left it.
Finished(e) == bcast[e].pc \in {"done", "crashed"}

\* The event message of e has been sent to c.
HasEvent(c, e) == \E i \in 1..Len(inbox[c]) : inbox[c][i] = EventMsg(e)

StaysConnected(c) == c \in ws_connected_clients /\ alive[c]

\* C4: once the broadcast of an event has ended, every observer that was
\* registered when the event was published and is still registered and
\* connected has been sent the event.
C4_EveryEventDelivered ==
    \A e \in Events :
        Finished(e) => \A c \in bcast[e].targets : StaysConnected(c) => HasEvent(c, e)

\* C5: the event messages sent to an observer are in capture order.
C5_FifoPerObserver ==
    \A c \in Clients : \A i, j \in 1..Len(inbox[c]) :
        (i < j /\ inbox[c][i].type = "key" /\ inbox[c][j].type = "key")
            => inbox[c][i].event < inbox[c][j].event

\* C6: once a broadcast has ended, no observer whose send failed in it is
\* still in the registry.
C6_FailedObserverRemoved ==
    \A e \in Events : Finished(e) => bcast[e].failed \cap ws_connected_clients = {}

\* C7: a broadcast in which a send failed raises nothing, and when it has
\* ended every other observer it was published to, still registered and
\* connected, has been sent the event.
C7_PublishNeverRaises ==
    \A e \in Events :
        bcast[e].failed # {} =>
            /\ bcast[e].pc # "crashed"
            /\ bcast[e].pc = "done" =>
                   \A c \in bcast[e].targets \ bcast[e].failed :
                       StaysConnected(c) => HasEvent(c, e)

\* C8: with KEYBOARD_AVAILABLE false, handling a start_tracking or
\* stop_tracking message appends the "not available on this platform" reply
\* with success false, begins no start()/stop() call and leaves the session
\* as it was.
C8_NotAvailableReply ==
    [][\A c \in Clients :
        ( /\ ~KEYBOARD_AVAILABLE
          /\ conn[c].at = "handle"
          /\ conn[c].request \in {"start_tracking", "stop_tracking"}
          /\ conn'[c] # conn[c] )
        => /\ inbox'[c] = Append(inbox[c],
                 [type |-> "command_response", command |-> conn[c].request, success |-> FALSE,
                  message |-> "Keyboard tracking not available on this platform"])
           /\ conn'[c].at = "loop"
           /\ frame' = frame
           /\ is_tracking' = is_tracking
           /\ keyboard_events' = keyboard_events
           /\ listener' = listener
           /\ event_tap' = event_tap]_vars

C8_Witness ==
    \E c \in Clients :
        /\ ~KEYBOARD_AVAILABLE
        /\ inbox[c] # <<>>
        /\ Last(inbox[c]).type = "command_response"
        /\ Last(inbox[c]).message = "Keyboard tracking not available on this platform"

\* C9: the reply to a start_tracking whose call began in Tracking is
\* success false, "already running"; the reply to a stop_tracking whose call
\* began in Idle is success false, "not running"; neither is the reply given
\* when KEYBOARD_AVAILABLE is false.
C9_ConflictReplies ==
    [][\A c \in Clients :
        (conn[c].at = "call" /\ conn'[c].at # "call")
        => /\ (frame[c].op = "start" /\ frame[c].pre) =>
                  /\ inbox'[c] = Append(inbox[c],
                        [type |-> "command_response", command |-> "start_tracking",
                         success |-> FALSE, message |-> "Keyboard tracking already running"])
                  /\ Last(inbox'[c]).message # NotAvailableMessage
           /\ (frame[c].op = "stop" /\ ~frame[c].pre) =>
                  /\ inbox'[c] = Append(inbox[c],
                        [type |-> "command_response", command |-> "stop_tracking",
                         success |-> FALSE, message |-> "Keyboard tracking not running"])
                  /\ Last(inbox'[c]).message # NotAvailableMessage]_vars

C9_Witness ==
    \E c \in Clients :
        /\ inbox[c] # <<>>
        /\ Last(inbox[c]).type = "command_response"
        /\ Last(inbox[c]).message = "Keyboard tracking already running"
        /\ is_tracking
        /\ clock = 0 /\ orphans = 0 /\ HttpIdle

\* C10: the reply to a start_tracking whose call began in Idle and whose
\* backend start failed has success false and a message other than the
\* "already running" one, and the session is Idle.
C10_StartFailureSurfaced ==
    [][\A c \in Clients :
        ( /\ conn[c].at = "call" /\ conn'[c].at = "loop"
          /\ frame[c].op = "start" /\ ~frame[c].pre /\ frame[c].fault )
        => /\ ~is_tracking'
           /\ Last(inbox'[c]).type = "command_response"
           /\ ~Last(inbox'[c]).success
           /\ Last(inbox'[c]).message # "Keyboard tracking already running"]_vars

\* C11: a start of the Quartz tracker that ended at tap creation with no
\* handle returns a value other than the one the unavailable tracker's start
\* returns, and its reply is neither the not-available reply nor the reply
\* given to a start that was refused because tracking is already on.
C11_PermissionDeniedDistinct ==
    [][\A c \in Clients :
        ( /\ conn[c].at = "call" /\ conn'[c].at = "loop"
          /\ keyboard_tracker = "MacOS" /\ frame[c].op = "start"
          /\ frame[c].fault /\ event_tap = "None" )
        => /\ frame[c].ret # DummyStart
           /\ Last(inbox'[c]).message # NotAvailableMessage
           /\ Last(inbox'[c]).message # ResponseMessage("start_tracking", FALSE)]_vars

\* C12: a stop() call that began in Tracking has, once it has ended, left the
\* session Idle, whatever the backend's teardown did.
C12_StopAlwaysIdle ==
    \A t \in Threads :
        (frame[t].op = "stop" /\ frame[t].pc = "ret" /\ frame[t].pre) => ~is_tracking

\* C13: when a stop() call has returned True, no capture loop of the tracker
\* runs: no pynput listener thread, no run_loop_thread, no orphaned loop.
C13_NoLoopAfterStop ==
    \A t \in Threads :
        (frame[t].op = "stop" /\ frame[t].pc = "ret" /\ frame[t].ret = "true")
            => /\ listener # "running"
               /\ thread # "running"
               /\ orphans = 0

\* C14: a handler that has received a malformed payload ignores it: it sends
\* nothing, goes back to awaiting the next message, and its observer stays
\* registered.
C14_MalformedIgnored ==
    [][\A c \in Clients :
        (conn[c].at = "handle" /\ conn[c].request \in Malformed /\ conn'[c] # conn[c])
        => /\ conn'[c].at = "loop"
           /\ inbox'[c] = inbox[c]
           /\ (c \in ws_connected_clients) = (c \in ws_connected_clients')]_vars

\* The handler of c ends the handling of a recognized command in this step.
Answers(c) ==
    /\ conn[c].request \in Commands
    /\ conn[c].at \in {"handle", "call", "dumps"}
    /\ conn'[c].at \in {"loop", "finally"}

C16_ReplayIffTracking ==
    [][\A c \in Clients :
        /\ (conn[c].at = "status" /\ conn'[c].at = "init")
               => inbox'[c] = <<StatusMsg(is_tracking, KEYBOARD_AVAILABLE)>>
        /\ (conn[c].at = "init" /\ conn'[c].at = "loop" /\ alive[c])
               => inbox'[c] = IF is_tracking
                              THEN Append(inbox[c], InitEventsMsg(keyboard_events))
                              ELSE inbox[c]]_vars

\* C16 as amended: the status is sent once, with the current is_tracking and
\* KEYBOARD_AVAILABLE, and the replay exactly when is_tracking is true and
\* keyboard_events is not empty.
C16_ReplayIffTrackingAndEvents ==
    [][\A c \in Clients :
        /\ (conn[c].at = "status" /\ conn'[c].at = "init")
               => inbox'[c] = <<StatusMsg(is_tracking, KEYBOARD_AVAILABLE)>>
        /\ (conn[c].at = "init" /\ conn'[c].at = "loop" /\ alive[c])
               => inbox'[c] = IF is_tracking /\ keyboard_events # <<>>
                              THEN Append(inbox[c], InitEventsMsg(keyboard_events))
                              ELSE inbox[c]
        /\ conn[c].at # "status"
               => \A i \in 1..Len(inbox'[c]) : inbox'[c][i].type = "status" => i = 1]_vars

C16_Witness ==
    \E c \in Clients :
        /\ Len(inbox[c]) = 2
        /\ inbox[c][1] = StatusMsg(TRUE, TRUE)
        /\ inbox[c][2] = InitEventsMsg(keyboard_events)
        /\ Len(keyboard_events) = 2

\* C17: a step that unregisters an observer removes that observer only and
\* leaves the session, the backend and keyboard_events as they are; and when
\* unregistrations are all that happened to the registry since an event was
\* published, the observers still registered and connected are sent it.
C17_DisconnectUnregistersOnly ==
    /\ [][\A c \in Clients :
            (c \in ws_connected_clients /\ c \notin ws_connected_clients')
            => /\ ws_connected_clients' = ws_connected_clients \ {c}
               /\ UNCHANGED <<keyboard_tracker, sessionVars>>]_vars
    /\ [](\A e \in Events :
            ( /\ Finished(e)
              /\ \A c \in Clients \ bcast[e].targets : conn[c].at = "new" )
            => \A c \in bcast[e].targets : StaysConnected(c) => HasEvent(c, e))

\* C18: a Tracking period begins with keyboard_events empty; while it lasts
\* keyboard_events changes only by the delivered event being appended; and a
\* get_events reply sent during it carries exactly keyboard_events, with
\* isTracking true.
C18_LogIsDeliveries ==
    [][/\ (~is_tracking /\ is_tracking') => keyboard_events' = <<>>
       /\ (is_tracking /\ is_tracking')
              => keyboard_events' = IF clock' = clock THEN keyboard_events
                                    ELSE Append(keyboard_events, clock')
       /\ \A c \in Clients :
              (conn[c].at = "dumps" /\ conn'[c].at = "loop" /\ is_tracking)
              => inbox'[c] = Append(inbox[c], [type |-> "events", events |-> keyboard_events,
                                                isTracking |-> TRUE])]_vars

C18_Witness ==
    \E c \in Clients :
        /\ inbox[c] # <<>>
        /\ Last(inbox[c]) = [type |-> "events", events |-> <<1, 2>>, isTracking |-> TRUE]
        /\ keyboard_events = <<1, 2>>
        /\ is_tracking

\* C19: the events and the isTracking of a get_events reply are values
\* keyboard_events and is_tracking had together at some instant while the
\* reply was built.
C19_ConsistentSnapshot ==
    [][\A c \in Clients :
        (conn[c].at = "dumps" /\ conn'[c].at = "loop")
        => <<Last(inbox'[c]).events, Last(inbox'[c]).isTracking>> \in reading[c].seen]_vars

IsPrefix(p, q) == Len(p) <= Len(q) /\ \A i \in 1..Len(p) : p[i] = q[i]

\* C20: keyboard_events is empty when a Tracking period begins, and while the
\* period lasts every value of keyboard_events extends the one before.
C20_LogAppendOnly ==
    [][/\ (~is_tracking /\ is_tracking') => keyboard_events' = <<>>
       /\ (is_tracking /\ is_tracking') => IsPrefix(keyboard_events, keyboard_events')]_vars

\* C21: keyboard_tracker is the tracker the selection policy names (a forced
\* backend if it is found, Quartz on macOS only, and the dummy otherwise; with
\* no override pynput, else Quartz on macOS, else the dummy), and
\* KEYBOARD_AVAILABLE is true exactly when it is not the dummy.
C21_SelectionPolicy ==
    LET force == FORCE_KEYBOARD_MODE
        pynput == "pynput" \in importable
        quartz == IS_MACOS /\ "Quartz" \in importable
        chosen == IF force # ""
                  THEN IF force = "pynput" /\ pynput THEN "Pynput"
                       ELSE IF force = "quartz" /\ quartz THEN "MacOS"
                       ELSE "Dummy"
                  ELSE IF pynput THEN "Pynput"
                  ELSE IF quartz THEN "MacOS"
                  ELSE "Dummy"
    IN  /\ keyboard_tracker = chosen
        /\ KEYBOARD_AVAILABLE = (keyboard_tracker # "Dummy")

\* C22: when FORCE_KEYBOARD_MODE names no supported backend, or one that
\* cannot be used on this host, the dummy tracker is selected and
\* KEYBOARD_AVAILABLE is false.
C22_UnsupportedOverride ==
    ( \/ FORCE_KEYBOARD_MODE \notin {"", "pynput", "quartz"}
      \/ FORCE_KEYBOARD_MODE = "pynput" /\ "pynput" \notin importable
      \/ FORCE_KEYBOARD_MODE = "quartz" /\ ~(IS_MACOS /\ {"Quartz", "AppKit"} \subseteq importable) )
    => keyboard_tracker = "Dummy" /\ ~KEYBOARD_AVAILABLE

\* The broadcasts whose for loop over ws_connected_clients is under way.
Iterating == {e \in Events : bcast[e].pc = "iter"}

\* C23: while a broadcast is iterating over ws_connected_clients no step
\* changes the set (no connect, no disconnect, no removal by a broadcast).
C23_RegistryStableWhileIterating ==
    [][Iterating # {} => ws_connected_clients' = ws_connected_clients]_vars

\* C24: once a broadcast in which a send stalled has ended, it has raised
\* nothing, every observer whose send stalled has been marked disconnected,
\* and every other observer it was published to, still registered and
\* connected, has been sent the event.
C24_SlowObserverNoStall ==
    \A e \in Events :
        (bcast[e].stalled # {} /\ Finished(e)) =>
            /\ bcast[e].pc = "done"
            /\ bcast[e].stalled \subseteq bcast[e].failed
            /\ \A c \in bcast[e].targets \ bcast[e].stalled :
                   StaysConnected(c) => HasEvent(c, e)

\* The event is in keyboard_events.
InLog(e) == \E i \in 1..Len(keyboard_events) : keyboard_events[i] = e

\* C25: whenever an event message is sent to an observer, the event is in
\* keyboard_events, the log of the current tracking period.
C25_AppendedBeforeDelivered ==
    [][\A c \in Clients, e \in Events :
          (~HasEvent(c, e) /\ HasEvent(c, e)') => InLog(e)]_vars

\* The handler of c is between its registration and its finally clause.
Serving(c) == conn[c].at \in {"status", "init", "loop", "handle", "events", "dumps", "call"}

\* A send to c has failed in a broadcast that has since ended.
SendFailed(c) == \E e \in Events : Finished(e) /\ c \in bcast[e].failed

\* C26: an observer is in ws_connected_clients only after its handler has
\* registered it, it stays there while its handler serves it and no send to
\* it has failed, it is not there once a broadcast in which a send to it
\* failed has ended, and it is not there once its handler has terminated.
C26_RegistryFollowsLifecycle ==
    \A c \in Clients :
        /\ c \in ws_connected_clients => conn[c].at # "new"
        /\ (Serving(c) /\ \A e \in Events : c \notin bcast[e].failed)
               => c \in ws_connected_clients
        /\ SendFailed(c) => c \notin ws_connected_clients
        /\ conn[c].at \in {"closed", "crashed"} => c \notin ws_connected_clients

\* Thread t is in a start() entered while tracking, or a stop() entered while idle.
Redundant(t) ==
    /\ InCall(t)
    /\ \/ frame[t].op = "start" /\ frame[t].pre
       \/ frame[t].op = "stop" /\ ~frame[t].pre

\* C27: no step of a start() entered while tracking, or of a stop() entered
\* while idle, changes is_tracking, the listener, the event tap, the capture
\* loops or keyboard_events, and the call returns False.
C27_RedundantCallsAreNoOps ==
    [][\A t \in Threads :
          (Redundant(t) /\ frame'[t] # frame[t]) =>
              /\ UNCHANGED sessionVars
              /\ frame'[t].pc = "ret" => frame'[t].ret = "false"]_vars

\* A start() entered while tracking, with a key in the log and a capture loop
\* running, has returned.
C27_Witness ==
    \E t \in Threads :
        /\ frame[t].op = "start" /\ frame[t].pre /\ frame[t].pc = "ret"
        /\ keyboard_events # <<>>
        /\ ActiveListeners = 1

\* C28: the first message sent to an observer is the status message, and no
\* key event message is sent to it before its status and init_events messages.
C28_StatusFirst ==
    \A c \in Clients :
        /\ inbox[c] # <<>> => inbox[c][1].type = "status"
        /\ \A i, j \in 1..Len(inbox[c]) :
               (i < j /\ inbox[c][i].type = "key")
                   => inbox[c][j].type \notin {"status", "init_events"}

\* The start() of thread t, entered while idle, has ended without success.
StartFailed(t) ==
    /\ frame[t].op = "start" /\ ~frame[t].pre
    /\ frame[t].pc = "ret"
    /\ frame[t].ret # "true"

\* C29: when a start() entered while idle has failed, keyboard_events is what
\* it was when the call was entered.
C29_FailedStartKeepsLog ==
    \A t \in Threads : StartFailed(t) => keyboard_events = frame[t].log

\* The messages sent to c that carry event e: its key event message, and
\* the init_events replays that hold it.
Deliveries(c, e) ==
    {i \in 1..Len(inbox[c]) :
        \/ inbox[c][i] = EventMsg(e)
        \/ /\ inbox[c][i].type = "init_events"
           /\ \E k \in 1..Len(inbox[c][i].events) : inbox[c][i].events[k] = e}

\* C30: an observer that connected while tracking and has been sent its
\* status (and replay) is sent each event of the log at most once, and
\* exactly once when no broadcast of the event is under way.
C30_ReplayOrEventExactlyOnce ==
    \A c \in Clients, e \in Events :
        (conn[c].at = "loop" /\ InLog(e)) =>
            /\ Cardinality(Deliveries(c, e)) <= 1
            /\ ~BusyBroadcast(e) => Cardinality(Deliveries(c, e)) = 1

\* C31: no ws_connected_clients.remove raises: the finally clause of a
\* handler never ends in a KeyError, and neither does the removal loop of a
\* broadcast.
C31_RemovalNeverFails ==
    [][/\ \A c \in Clients : conn[c].at = "finally" => conn'[c].at # "crashed"
       /\ \A e \in Events : bcast[e].pc = "remove" => bcast'[e].pc # "crashed"]_vars

\* C32: an event is appended to keyboard_events only while is_tracking is true.
C32_AppendOnlyWhileTracking ==
    [][Len(keyboard_events') > Len(keyboard_events) => is_tracking]_vars

\* Thread t's call of o returns True in this step.
ReturnsTrue(t, o) ==
    /\ frame[t].op = o /\ frame[t].pc # "ret"
    /\ frame'[t].op = o /\ frame'[t].pc = "ret" /\ frame'[t].ret = "true"

\* C33: a start() returns True (and its reply says success) only in a call
\* that has moved is_tracking from false to true, and a stop() only in a call
\* that has moved it from true to false.
C33_TruthfulReplies ==
    [][\A t \in Threads :
          /\ ReturnsTrue(t, "start") => ~is_tracking /\ is_tracking'
          /\ ReturnsTrue(t, "stop") => is_tracking /\ ~is_tracking']_vars

\* Thread t takes a step of its start() call.
StartMoves(t) == frame[t].op = "start" /\ InCall(t) /\ frame'[t] # frame[t]

\* C34: the step that sets is_tracking to false leaves keyboard_events as it
\* is; while is_tracking is false only a start() changes keyboard_events;
\* and a start() that has failed has left it as it was, so that the log of
\* the period that ended stays until a start() succeeds.
C34_StopKeepsLog ==
    /\ [][/\ (is_tracking /\ ~is_tracking') => keyboard_events' = keyboard_events
          /\ (~is_tracking /\ keyboard_events' # keyboard_events)
                 => \E t \in Threads : StartMoves(t)]_vars
    /\ [](\A t \in Threads :
             (frame[t].op = "start" /\ frame[t].pc = "ret" /\ frame[t].ret # "true")
                 => keyboard_events = frame[t].log)

====
